---- MODULE Spec2Model ----
(***************************************************************************)
(* Cart synchronisation of the restaurant site: the client-side cart       *)
(* module (getCart, addToCart, removeFromCart, updateCartItemQuantity,     *)
(* clearCart, calculateCartTotal, getCartItemCount) over the Express/MySQL *)
(* cart API and the localStorage fallback.                                 *)
(*                                                                         *)
(* Strings are sequences of one-character strings so that trim() and      *)
(* length are computed.  JavaScript values that can have several types     *)
(* are records with a type tag t.  A quantity argument is a number given   *)
(* in tenths (995 is 99.5) so that parseInt() has something to truncate.   *)
(***************************************************************************)
EXTENDS Integers, Sequences, FiniteSets, TLC

(***************************************************************************)
(* Bounds of the exploration.                                              *)
(***************************************************************************)
MaxCalls == 3

(***************************************************************************)
(* Program constants.                                                      *)
(***************************************************************************)
MaxUserIdLen == 50
MaxNameLen == 100
MaxPrice == 999999
MinQuantity == 1
MaxQuantity == 99
MaxDiscount == 100

Slots == {1, 2}

(***************************************************************************)
(* Strings.                                                                *)
(***************************************************************************)
GUEST == <<"g", "u", "e", "s", "t">>
U1 == <<"u", "1">>
\* a user id of the greatest length validateUserId accepts
U50 == [i \in 1..50 |-> "x"]
P1 == <<"p", "1">>
P2 == <<"p", "2">>
Blank == <<" ">>
Spaced(s) == <<" ">> \o s \o <<" ">>
Filled(n) == [i \in 1..n |-> "x"]

RECURSIVE TrimStart(_)
TrimStart(s) ==
    IF s # <<>> /\ Head(s) = " " THEN TrimStart(Tail(s)) ELSE s

RECURSIVE TrimEnd(_)
TrimEnd(s) ==
    IF s # <<>> /\ s[Len(s)] = " " THEN TrimEnd(SubSeq(s, 1, Len(s) - 1)) ELSE s

\* String.prototype.trim
Trim(s) == TrimEnd(TrimStart(s))

\* JavaScript values
StrV(s) == [t |-> "str", v |-> s]
NumV(s) == [t |-> "num", v |-> s]
Undef == [t |-> "undef", v |-> <<>>]
Null == [t |-> "null", v |-> <<>>]

\* numbers: n is the value of parseFloat, nan marks a value parseFloat rejects
Num(n) == [t |-> "num", n |-> n]
NaN == [t |-> "nan", n |-> 0]
NoNum == [t |-> "undef", n |-> 0]

\* x || 0 followed by parseFloat, for the numeric fields of a valid product
Truthy(x) == x.t = "num" /\ x.n # 0

(***************************************************************************)
(* Validation helpers.                                                     *)
(***************************************************************************)
\* parseInt(quantity, 10) of a number given in tenths: truncation toward 0
ParseInt(q) ==
    IF q.t # "num" THEN NaN
    ELSE IF q.n >= 0 THEN Num(q.n \div 10) ELSE Num(-((-q.n) \div 10))

\* the check of the lower limit left out
validateQuantity_NoLowerLimit(q) ==
    LET qty == ParseInt(q)
    IN  IF qty.t = "nan" \/ qty.n > MaxQuantity
        THEN [valid |-> FALSE, value |-> 0]
        ELSE [valid |-> TRUE, value |-> qty.n]

validateQuantity(q) ==
    LET qty == ParseInt(q)
    IN  IF qty.t = "nan" \/ qty.n < MinQuantity \/ qty.n > MaxQuantity
        THEN [valid |-> FALSE, value |-> 0]
        ELSE [valid |-> TRUE, value |-> qty.n]

\* the limit of 50 applied to the id as passed, blanks included
validateUserId_RawLength(userId) ==
    IF userId.t # "str" \/ userId.v = <<>>
    THEN [valid |-> FALSE, userId |-> <<>>]
    ELSE LET trimmedUserId == Trim(userId.v)
         IN  IF trimmedUserId = <<>> THEN [valid |-> FALSE, userId |-> <<>>]
             ELSE IF Len(userId.v) > MaxUserIdLen
                  THEN [valid |-> FALSE, userId |-> <<>>]
                  ELSE [valid |-> TRUE, userId |-> trimmedUserId]

validateUserId(userId) ==
    IF userId.t # "str" \/ userId.v = <<>>
    THEN [valid |-> FALSE, userId |-> <<>>]
    ELSE LET trimmedUserId == Trim(userId.v)
         IN  IF trimmedUserId = <<>> THEN [valid |-> FALSE, userId |-> <<>>]
             ELSE IF Len(trimmedUserId) > MaxUserIdLen
                  THEN [valid |-> FALSE, userId |-> <<>>]
                  ELSE [valid |-> TRUE, userId |-> trimmedUserId]

\* the default parameter userId = 'guest'
DefaultUser(userId) == IF userId.t = "undef" THEN StrV(GUEST) ELSE userId

\* validUserId of getCart, clearCart, calculateCartTotal, getCartItemCount
GuestFallback(userId) ==
    LET r == validateUserId(DefaultUser(userId))
    IN  IF r.valid THEN r.userId ELSE GUEST

Missing(x) == x.t \in {"undef", "null"}

OutOfRange(x, hi) == x.t # "num" \/ x.n < 0 \/ x.n > hi

validateProductData(product) ==
    IF ~product.isObject THEN FALSE
    ELSE IF Missing(product.id) \/ Missing(product.name) \/ Missing(product.price)
    THEN FALSE
    ELSE IF Trim(product.id.v) = <<>> THEN FALSE
    ELSE IF Trim(product.name.v) = <<>> THEN FALSE
    ELSE IF Len(Trim(product.name.v)) > MaxNameLen THEN FALSE
    ELSE IF OutOfRange(product.price, MaxPrice) THEN FALSE
    ELSE IF product.image_url.t \notin {"undef", "str"} THEN FALSE
    ELSE IF product.original_price.t # "undef"
            /\ OutOfRange(product.original_price, MaxPrice) THEN FALSE
    ELSE IF product.discount.t # "undef"
            /\ OutOfRange(product.discount, MaxDiscount) THEN FALSE
    ELSE TRUE

\* the product id check of removeFromCart and updateCartItemQuantity
validProductId(productId) == productId.t = "str" /\ productId.v # <<>>

(***************************************************************************)
(* Arguments the callers pass.                                             *)
(***************************************************************************)
Users == {GUEST, U1}
Pids == {P1, P2}

\* user ids no validation accepts
InvalidUserArgs ==
    { StrV(<<>>), StrV(Blank), StrV(Filled(MaxUserIdLen + 1)), NumV(<<"7">>), Null }

\* the user id is left out, padded "u1", or invalid
UserArgs == { Undef, StrV(Spaced(U1)) } \cup InvalidUserArgs

\* also U50 padded with a blank on each side: 52 characters, 50 trimmed
WideUserArgs == UserArgs \cup { StrV(Spaced(U50)) }

\* the callers that change a cart pass the id of the user who is logged in
OwnerArgs == { StrV(Spaced(U1)) } \cup InvalidUserArgs

Product(id, name, price, original_price, discount, image_url) ==
    [isObject |-> TRUE, id |-> id, name |-> name, price |-> price,
     original_price |-> original_price, discount |-> discount,
     image_url |-> image_url]

Dish == StrV(<<"d", "i", "s", "h">>)
ProdP1 == Product(StrV(P1), Dish, Num(100), Num(100), Num(25), StrV(<<"u">>))
ProdP2 == Product(StrV(P2), Dish, Num(40), NoNum, NoNum, Undef)

ValidProducts == {ProdP1, ProdP2}

InvalidProducts ==
    { [ProdP1 EXCEPT !.isObject = FALSE],
      [ProdP1 EXCEPT !.id = Undef],
      [ProdP1 EXCEPT !.id = StrV(Blank)],
      [ProdP1 EXCEPT !.name = Null],
      [ProdP1 EXCEPT !.name = StrV(Blank)],
      [ProdP1 EXCEPT !.name = StrV(Filled(MaxNameLen + 1))],
      [ProdP1 EXCEPT !.price = NaN],
      [ProdP1 EXCEPT !.price = Num(-1)],
      [ProdP1 EXCEPT !.price = Num(MaxPrice + 1)],
      [ProdP1 EXCEPT !.image_url = NumV(<<"7">>)],
      [ProdP1 EXCEPT !.original_price = [t |-> "null", n |-> 0]],
      [ProdP1 EXCEPT !.discount = Num(MaxDiscount + 1)] }

ProductIdArgs == { StrV(P1), StrV(P2), StrV(<<>>), Undef, NumV(<<"7">>) }

(***************************************************************************)
(* Cart lines.                                                             *)
(***************************************************************************)
\* the object addToCart builds from a product, in the POST body and in the
\* local store
NewItem(product, quantity) ==
    [truthy |-> TRUE, idType |-> "string", quantityType |-> "number",
     id |-> product.id.v,
     quantity |-> quantity,
     price |-> IF Truthy(product.price) THEN product.price.n ELSE 0,
     original_price |->
         IF Truthy(product.original_price) THEN product.original_price.n
         ELSE IF Truthy(product.price) THEN product.price.n ELSE 0,
     discount |-> IF Truthy(product.discount) THEN product.discount.n ELSE 0,
     addedAt |-> 0, updatedAt |-> 0]

NoItem == [truthy |-> TRUE, idType |-> "string", quantityType |-> "number",
          id |-> <<>>, quantity |-> 0, price |-> 0, original_price |-> 0, discount |-> 0,
          addedAt |-> 0, updatedAt |-> 0]

RECURSIVE SumQuantity(_)
SumQuantity(cart) ==
    IF cart = <<>> THEN 0 ELSE Head(cart).quantity + SumQuantity(Tail(cart))

\* Array.prototype.findIndex on item.id; 0 stands for -1
RECURSIVE FindFrom(_, _, _)
FindFrom(cart, id, i) ==
    IF i > Len(cart) THEN 0
    ELSE IF cart[i].id = id THEN i ELSE FindFrom(cart, id, i + 1)

findIndex(cart, id) == FindFrom(cart, id, 1)

\* Array.prototype.splice(i, 1)
splice(cart, i) == SubSeq(cart, 1, i - 1) \o SubSeq(cart, i + 1, Len(cart))

HasId(cart, id) == \E i \in 1..Len(cart) : cart[i].id = id

QuantityOf(cart, id) ==
    IF HasId(cart, id) THEN cart[findIndex(cart, id)].quantity ELSE 0

LinesOf(cart, id) == Cardinality({i \in 1..Len(cart) : cart[i].id = id})

(***************************************************************************)
(* State.                                                                  *)
(***************************************************************************)
VARIABLES
    apiAvailable,   \* the module-level flag
    probe,          \* "pending" while the HEAD request of the initial check is in
                    \* flight, then "ok" or "failed"
    remote,         \* the rows of the MySQL table cart, in insertion order
    local,          \* localStorage: for each user the value under cart_<userId>
    calls,          \* the facade calls in progress, one per slot
    started,        \* number of facade calls started so far
    failedOnce,     \* the probe or a request of a facade operation has failed
    added,          \* quantities added by successful addToCart calls, per store
    onlyAdds,       \* no removeFromCart, updateCartItemQuantity or clearCart succeeded yet
    cleared,        \* per user: "just" when the call that returned last was a successful
                    \* clearCart of that user, "yes" when one returned and no addToCart
                    \* for that user started since, "no" otherwise
    shown,          \* per user: the product ids of the cart the last getCart returned
    clock,          \* the time new Date() and CURRENT_TIMESTAMP give
    usersData,      \* localStorage: the value under users
    currentUser,    \* localStorage: the value under currentUser, the session
    authResult,     \* what the last registerUser or loginUser call returned
    logout,         \* the user the last logoutUser found logged in, and the number
                    \* of cart calls started before it: its clearCart is the next
    orders,         \* the rows of the MySQL table orders
    order_items,    \* the rows of the MySQL table order_items
    request         \* the /save-order request being handled, or the last one answered

vars == <<apiAvailable, probe, remote, local, calls, started, failedOnce,
          added, onlyAdds, cleared, shown, clock, usersData, currentUser,
          authResult, logout, orders, order_items, request>>

\* the state of the cart
cartVars == <<apiAvailable, probe, remote, local, calls, started, failedOnce,
              added, onlyAdds, cleared, shown>>

\* what no operation of the cart changes
rest == <<clock, usersData, currentUser, authResult, logout, orders, order_items,
          request>>

Stores == {"remote", "local"}

(***************************************************************************)
(* The local cart store.                                                   *)
(***************************************************************************)
\* the value under a key: form is "none" when the key is absent, "array"
\* for the JSON text of an array, and for what another writer can leave
\* there "empty" (the empty string), "text" (no JSON), "object" and "null"
\* (JSON that is no array)
NoData == [present |-> FALSE, form |-> "none", items |-> <<>>]
Stored(cart) == [present |-> TRUE, form |-> "array", items |-> cart]
Raw(form) == [present |-> TRUE, form |-> form, items |-> <<>>]

\* JSON.parse inside try/catch: the default for a text that is no JSON
safeJSONParse(jsonString, defaultValue) ==
    IF jsonString.form = "text" THEN defaultValue ELSE jsonString

\* the filter keeps only lines with a quantity above 1
ValidLine_AboveOne(item) ==
    /\ item.truthy
    /\ item.idType = "string"
    /\ item.quantityType = "number"
    /\ item.quantity > 1

\* the filter of getCartFromLocalStorage; JSON.stringify and JSON.parse keep
\* the strings and finite numbers of a line as they are
ValidLine(item) ==
    /\ item.truthy
    /\ item.idType = "string"
    /\ item.quantityType = "number"
    /\ item.quantity > 0

\* the array is returned as parsed, without the filter
getCartFromLocalStorage_Unfiltered(userId) ==
    LET cartData == local[userId]
        cart == safeJSONParse(cartData, Stored(<<>>))
    IN  IF ~cartData.present \/ cartData.form = "empty" THEN <<>>
        ELSE IF cart.form # "array" THEN <<>>
        ELSE cart.items

getCartFromLocalStorage(userId) ==
    LET cartData == local[userId]
        cart == safeJSONParse(cartData, Stored(<<>>))
    IN  IF ~cartData.present \/ cartData.form = "empty" THEN <<>>
        ELSE IF cart.form # "array" THEN <<>>
        ELSE SelectSeq(cart.items, ValidLine)

Result(success, notFound, cart, itemCount) ==
    [success |-> success, notFound |-> notFound, cart |-> cart,
     itemCount |-> itemCount, total |-> 0]

NoResult == Result(FALSE, FALSE, <<>>, 0)

\* the line of the product gets the quantity of this call alone, as when
\* the call had read the cart before the write of another call
addToCartLocalStorage_Overwrite(item, userId) ==
    LET cart == getCartFromLocalStorage(userId)
        existingItemIndex == findIndex(cart, item.id)
        newCart ==
            IF existingItemIndex # 0
            THEN [cart EXCEPT ![existingItemIndex].quantity = item.quantity]
            ELSE Append(cart, [item EXCEPT !.addedAt = clock, !.updatedAt = clock])
    IN  [write |-> TRUE, value |-> Stored(newCart),
         res |-> Result(TRUE, FALSE, newCart, SumQuantity(newCart))]

\* each local operation gives the value written under the key (write = FALSE
\* when nothing is written) and the object returned
addToCartLocalStorage(item, userId) ==
    LET cart == getCartFromLocalStorage(userId)
        existingItemIndex == findIndex(cart, item.id)
        newCart ==
            IF existingItemIndex # 0
            THEN [cart EXCEPT ![existingItemIndex].quantity = @ + item.quantity]
            ELSE Append(cart, [item EXCEPT !.addedAt = clock, !.updatedAt = clock])
    IN  [write |-> TRUE, value |-> Stored(newCart),
         res |-> Result(TRUE, FALSE, newCart, SumQuantity(newCart))]

removeFromCartLocalStorage(productId, userId) ==
    LET cart == getCartFromLocalStorage(userId)
        itemIndex == findIndex(cart, productId)
        newCart == splice(cart, itemIndex)
    IN  IF itemIndex = 0
        THEN [write |-> FALSE, value |-> NoData, res |-> Result(FALSE, TRUE, <<>>, 0)]
        ELSE [write |-> TRUE, value |-> Stored(newCart),
              res |-> Result(TRUE, FALSE, newCart, SumQuantity(newCart))]

updateCartItemQuantityLocalStorage(productId, quantity, userId) ==
    LET cart == getCartFromLocalStorage(userId)
        itemIndex == findIndex(cart, productId)
        newCart == [cart EXCEPT ![itemIndex].quantity = quantity,
                                ![itemIndex].updatedAt = clock]
    IN  IF itemIndex = 0
        THEN [write |-> FALSE, value |-> NoData, res |-> Result(FALSE, TRUE, <<>>, 0)]
        ELSE [write |-> TRUE, value |-> Stored(newCart),
              res |-> Result(TRUE, FALSE, newCart, SumQuantity(newCart))]

clearCartLocalStorage(userId) ==
    [write |-> TRUE, value |-> NoData, res |-> Result(TRUE, FALSE, <<>>, 0)]

(***************************************************************************)
(* The cart API over the table cart.                                       *)
(***************************************************************************)
Row(userId, item) ==
    [user_id |-> userId, product_id |-> item.id, quantity |-> item.quantity,
     price |-> item.price,
     original_price |-> IF item.original_price # 0 THEN item.original_price ELSE item.price,
     discount |-> item.discount,
     added_at |-> clock, updated_at |-> clock]

RowsOf(userId) == SelectSeq(remote, LAMBDA r : r.user_id = userId)

HasRow(userId, productId) ==
    \E i \in 1..Len(remote) : remote[i].user_id = userId /\ remote[i].product_id = productId

\* SELECT * FROM cart WHERE user_id = ? AND product_id = ?, then
\* existingItems[0].quantity; 0 when existingItems is empty
SelectQuantity(userId, productId) ==
    IF HasRow(userId, productId)
    THEN (CHOOSE r \in {remote[i] : i \in 1..Len(remote)} :
              r.user_id = userId /\ r.product_id = productId).quantity
    ELSE 0

\* UPDATE cart SET quantity = ?, updated_at = CURRENT_TIMESTAMP
\* WHERE user_id = ? AND product_id = ?
UpdateRows(userId, productId, quantity) ==
    [i \in 1..Len(remote) |->
        IF remote[i].user_id = userId /\ remote[i].product_id = productId
        THEN [remote[i] EXCEPT !.quantity = quantity, !.updated_at = clock]
        ELSE remote[i]]

\* DELETE FROM cart WHERE user_id = ? AND product_id = ?
DeleteRow(userId, productId) ==
    SelectSeq(remote, LAMBDA r : ~(r.user_id = userId /\ r.product_id = productId))

\* DELETE FROM cart, without the WHERE: the rows of every user go
DeleteRows_AllUsers(userId) == SelectSeq(remote, LAMBDA r : FALSE)

\* DELETE FROM cart WHERE user_id = ?
DeleteRows(userId) == SelectSeq(remote, LAMBDA r : r.user_id # userId)

\* the mapping of getCart from rows to cart lines
FromRow(r) ==
    [truthy |-> TRUE, idType |-> "string", quantityType |-> "number",
     id |-> r.product_id, quantity |-> r.quantity, price |-> r.price,
     original_price |-> r.original_price, discount |-> r.discount,
     addedAt |-> r.added_at, updatedAt |-> r.updated_at]

RemoteCart(userId) ==
    LET rows == RowsOf(userId) IN [i \in 1..Len(rows) |-> FromRow(rows[i])]

(***************************************************************************)
(* Facade calls.  A call is at pc:                                         *)
(*   "idle"       no call in this slot                                     *)
(*   "fetch"      the request of removeFromCart, updateCartItemQuantity or *)
(*                clearCart is in flight                                   *)
(*   "addFetch"   the POST of addToCart is in flight                       *)
(*   "addServer"  the add handler has run its SELECT, not yet its write    *)
(*   "getFetch"   the GET of getCart is in flight                          *)
(*   "countFetch" the GET of getCartItemCount is in flight                 *)
(*   "totalFetch" the GET of calculateCartTotal is in flight               *)
(*   "done"       the call has returned res                                *)
(* stage tells what a getCart or getCartItemCount in progress is for.      *)
(***************************************************************************)
Mutations == {"add", "remove", "update", "clear"}

\* the detail of a cartUpdated event; itemCount is a number, or the promise
\* an un-awaited getCartItemCount call gives
NoEvent == [fired |-> FALSE, userId |-> <<>>, itemCount |-> NoNum]
CartUpdated(userId, itemCount) ==
    [fired |-> TRUE, userId |-> userId, itemCount |-> itemCount]

Idle ==
    [op |-> "none", pc |-> "idle", stage |-> "main", uid |-> <<>>, pid |-> <<>>,
     item |-> NoItem, seen |-> 0, res |-> NoResult,
     sent |-> FALSE,      \* the call has issued a request to the API
     late |-> FALSE,      \* the call started after a request had failed
     rfail |-> FALSE,     \* the request of the operation itself failed
     bad |-> FALSE,       \* an argument failed validation
     rawq |-> NaN,        \* the quantity argument as passed
     src |-> "none",      \* the store that served the operation
     gsrc |-> "none",     \* the store that served the cart a getCart returned
     before |-> <<>>,     \* the cart of the user in that store before the operation
     changed |-> FALSE,   \* the operation changed a store
     fresh |-> FALSE,     \* started after a clearCart of the user, no add since
     again |-> FALSE,     \* a clearCart right after a successful clearCart of the user
     event |-> NoEvent,   \* the cartUpdated event the call has dispatched
     refused |-> FALSE,   \* the INSERT of the call was refused by the key user_product
     lfail |-> FALSE,     \* localStorage.setItem or removeItem threw in the call
     shape |-> "none",    \* what the promise of the call settled to
     wrote |-> {}]        \* the stores the call has changed

NewCall(op, uid) ==
    [Idle EXCEPT !.op = op, !.uid = uid, !.late = failedOnce]

\* the promise of a mutation resolves to an object {success: boolean,
\* message: string, ...}, the promise of a read to a plain value (the cart,
\* the count, the total); "rejected" stands for an exception that escapes

\* the return of a call; a successful mutation has called updateCartCount,
\* which issues the request of an un-awaited getCartItemCount
Finish(c, res) ==
    [c EXCEPT !.pc = "done", !.res = res,
              !.sent = @ \/ (c.op \in Mutations /\ res.success),
              !.shape = IF c.op \in Mutations THEN "object" ELSE "value"]

\* effective price in hundredths: price * (1 - discount / 100)
RECURSIVE CartTotal(_)
CartTotal(cart) ==
    IF cart = <<>> THEN 0
    ELSE LET item == Head(cart)
             price == IF item.discount > 0 /\ item.discount <= MaxDiscount
                      THEN item.price * (100 - item.discount)
                      ELSE item.price * 100
         IN  price * item.quantity + CartTotal(Tail(cart))

\* SELECT SUM(price * quantity), in hundredths
RECURSIVE RemoteTotal(_)
RemoteTotal(rows) ==
    IF rows = <<>> THEN 0
    ELSE Head(rows).price * 100 * Head(rows).quantity + RemoteTotal(Tail(rows))

\* a count taken from getCart is not returned: the count is requested again
AfterCount_Again(c, n) ==
    IF c.stage = "countFallback"
    THEN [c EXCEPT !.pc = "countFetch",
                   !.stage = IF c.op = "count" THEN "main" ELSE "postCount"]
    ELSE IF c.op = "count"
    THEN Finish(c, [c.res EXCEPT !.itemCount = n])
    ELSE Finish(c, Result(TRUE, FALSE, c.res.cart, n))

\* getCartItemCount has its number n
AfterCount(c, n) ==
    IF c.op = "count"
    THEN Finish(c, [c.res EXCEPT !.itemCount = n])
    ELSE Finish(c, Result(TRUE, FALSE, c.res.cart, n))

\* the fallback of calculateCartTotal without the discount
AfterGetCart_NoDiscount(c, cart, src) ==
    CASE c.stage = "main" ->
            Finish([c EXCEPT !.gsrc = src], [c.res EXCEPT !.cart = cart])
      [] c.stage = "postCart" ->
            [c EXCEPT !.res.cart = cart, !.pc = "countFetch",
                      !.stage = "postCount", !.sent = TRUE]
      [] c.stage = "countFallback" -> AfterCount(c, SumQuantity(cart))
      [] c.stage = "totalFallback" ->
            Finish(c, [c.res EXCEPT !.total = RemoteTotal(cart), !.cart = cart])

\* getCart has its cart, read from store src
AfterGetCart(c, cart, src) ==
    CASE c.stage = "main" ->
            Finish([c EXCEPT !.gsrc = src], [c.res EXCEPT !.cart = cart])
      [] c.stage = "postCart" ->
            [c EXCEPT !.res.cart = cart, !.pc = "countFetch",
                      !.stage = "postCount", !.sent = TRUE]
      [] c.stage = "countFallback" -> AfterCount(c, SumQuantity(cart))
      [] c.stage = "totalFallback" ->
            \* res.cart keeps the cart the total was computed from
            Finish(c, [c.res EXCEPT !.total = CartTotal(cart), !.cart = cart])

\* getCart up to its first await
BeginGetCart(c) ==
    IF apiAvailable
    THEN [c EXCEPT !.pc = "getFetch", !.sent = TRUE]
    ELSE AfterGetCart(c, getCartFromLocalStorage(c.uid), "local")

\* the local-store version of the mutation of call c
LocalOp(c) ==
    CASE c.op = "add" -> addToCartLocalStorage(c.item, c.uid)
      [] c.op = "remove" -> removeFromCartLocalStorage(c.pid, c.uid)
      [] c.op = "update" ->
            updateCartItemQuantityLocalStorage(c.pid, c.item.quantity, c.uid)
      [] c.op = "clear" -> clearCartLocalStorage(c.uid)

\* the event the local-store version of the mutation of call c dispatches
\* when it has written the cart
LocalEvent(c, r) ==
    IF ~r.res.success THEN NoEvent
    ELSE IF c.op = "add" THEN CartUpdated(c.uid, [t |-> "promise", n |-> 0])
    ELSE CartUpdated(c.uid, Num(r.res.itemCount))

\* bookkeeping of added and onlyAdds when call c is served by store src
AddedAfter(c, src, success) ==
    IF ~success THEN added
    ELSE IF c.op = "add"
         THEN IF onlyAdds
              THEN [added EXCEPT ![<<src, c.uid, c.pid>>] = @ + c.item.quantity]
              ELSE added
         ELSE [k \in DOMAIN added |-> 0]

OnlyAddsAfter(c, success) == onlyAdds /\ (c.op = "add" \/ ~success)

\* the local-store version of the mutation of call c when the store can
\* (writable) or cannot be written
LocalOutcome(c, writable) ==
    \* the catch of a local-store function returns a failure when setItem or
    \* removeItem has thrown: nothing was written
    IF writable \/ ~LocalOp(c).write THEN LocalOp(c)
    ELSE [write |-> FALSE, value |-> NoData, res |-> NoResult]

\* no catch in the local-store function nor in the facade: the exception of
\* setItem escapes to the caller
ServeLocal_Uncaught(s, c) ==
    \E writable \in BOOLEAN :
        LET r == LocalOutcome(c, writable)
            c2 == [c EXCEPT !.src = "local",
                            !.before = getCartFromLocalStorage(c.uid),
                            !.changed = r.write /\ r.value # local[c.uid],
                            !.event = LocalEvent(c, r),
                            !.lfail = LocalOp(c).write /\ ~writable,
                            !.wrote = IF r.write /\ r.value # local[c.uid]
                                      THEN {"local"} ELSE {}]
            c3 == IF c2.lfail THEN [Finish(c2, r.res) EXCEPT !.shape = "rejected"]
                  ELSE Finish(c2, r.res)
        IN  /\ local' = IF r.write THEN [local EXCEPT ![c.uid] = r.value] ELSE local
            /\ calls' = [calls EXCEPT ![s] = c3]
            /\ added' = AddedAfter(c, "local", r.res.success)
            /\ onlyAdds' = OnlyAddsAfter(c, r.res.success)
            /\ UNCHANGED <<apiAvailable, probe, rest, remote>>

\* the mutation of call c falls through to the local store
ServeLocal(s, c) ==
    \E writable \in BOOLEAN :
        LET r == LocalOutcome(c, writable)
            c2 == [c EXCEPT !.src = "local",
                            !.before = getCartFromLocalStorage(c.uid),
                            !.changed = r.write /\ r.value # local[c.uid],
                            !.event = LocalEvent(c, r),
                            !.lfail = LocalOp(c).write /\ ~writable,
                            !.wrote = IF r.write /\ r.value # local[c.uid]
                                      THEN {"local"} ELSE {}]
            c3 == Finish(c2, r.res)
        IN  /\ local' = IF r.write THEN [local EXCEPT ![c.uid] = r.value] ELSE local
            /\ calls' = [calls EXCEPT ![s] = c3]
            /\ added' = AddedAfter(c, "local", r.res.success)
            /\ onlyAdds' = OnlyAddsAfter(c, r.res.success)
            /\ UNCHANGED <<apiAvailable, probe, rest, remote>>

\* the remote request of call c succeeded and left the table as rows
ServeRemote(s, c, rows) ==
    LET c2 == [c EXCEPT !.src = "remote", !.before = RemoteCart(c.uid),
                        !.changed = rows # remote,
                        \* the event dispatched after the request succeeded
                        !.event = IF c.op = "clear" THEN CartUpdated(c.uid, Num(0))
                                  ELSE NoEvent,
                        !.wrote = IF rows # remote THEN {"remote"} ELSE {}]
        c3 == IF c.op = "clear"
              THEN Finish(c2, Result(TRUE, FALSE, <<>>, 0))
              ELSE BeginGetCart([c2 EXCEPT !.stage = "postCart"])
    IN  /\ remote' = rows
        /\ calls' = [calls EXCEPT ![s] = c3]
        /\ added' = AddedAfter(c, "remote", TRUE)
        /\ onlyAdds' = OnlyAddsAfter(c, TRUE)
        /\ UNCHANGED <<apiAvailable, probe, rest, local, failedOnce>>

\* the server carried out the request of call c and left the table as rows,
\* but the response did not arrive: fetch throws, and the call falls through
\* to the local store
ServeLost(s, c, rows) ==
    \E writable \in BOOLEAN :
        LET r == LocalOutcome(c, writable)
            c2 == [c EXCEPT !.src = "local",
                            !.before = getCartFromLocalStorage(c.uid),
                            !.changed = rows # remote
                                           \/ (r.write /\ r.value # local[c.uid]),
                            !.event = LocalEvent(c, r),
                            !.lfail = LocalOp(c).write /\ ~writable,
                            !.wrote = (IF rows # remote THEN {"remote"} ELSE {})
                                         \cup (IF r.write /\ r.value # local[c.uid]
                                                THEN {"local"} ELSE {})]
            c3 == Finish(c2, r.res)
        IN  /\ remote' = rows
            /\ local' = IF r.write THEN [local EXCEPT ![c.uid] = r.value] ELSE local
            /\ calls' = [calls EXCEPT ![s] = c3]
            /\ added' = AddedAfter(c, "local", r.res.success)
            /\ onlyAdds' = OnlyAddsAfter(c, r.res.success)
            /\ UNCHANGED <<apiAvailable, probe, rest>>

(***************************************************************************)
(* auth.js: the users and the session, both kept in localStorage.          *)
(***************************************************************************)
\* Number.prototype.toString, for one digit
toString(n) ==
    << <<"0", "1", "2", "3", "4", "5", "6", "7", "8", "9">>[n + 1] >>

defaultUsers ==
    [present |-> TRUE,
     users |-> << [id |-> toString(1), username |-> "admin",
                   email |-> "admin@example.com", password |-> "admin123",
                   role |-> "admin"] >>,
     last_id |-> 1]

\* what getUsers returns; it stores the default when the key is absent
getUsers == IF usersData.present THEN usersData ELSE defaultUsers

\* the stored users are checked for the email only
registerUser_EmailOnly(username, email, password) ==
    LET data == getUsers
        newUser == [id |-> toString(data.last_id + 1), username |-> username,
                    email |-> email, password |-> password, role |-> "customer"]
    IN  IF \E i \in 1..Len(data.users) : data.users[i].email = email
        THEN [success |-> FALSE, message |-> "Email already registered", data |-> data]
        ELSE [success |-> TRUE, message |-> "Registration successful!",
              data |-> [data EXCEPT !.last_id = @ + 1,
                                    !.users = Append(@, newUser)]]

\* the object returned, and the value under users after the call
registerUser(username, email, password) ==
    LET data == getUsers
        newUser == [id |-> toString(data.last_id + 1), username |-> username,
                    email |-> email, password |-> password, role |-> "customer"]
    IN  IF \E i \in 1..Len(data.users) : data.users[i].email = email
        THEN [success |-> FALSE, message |-> "Email already registered", data |-> data]
        ELSE IF \E i \in 1..Len(data.users) : data.users[i].username = username
        THEN [success |-> FALSE, message |-> "Username already taken", data |-> data]
        ELSE [success |-> TRUE, message |-> "Registration successful!",
              data |-> [data EXCEPT !.last_id = @ + 1,
                                    !.users = Append(@, newUser)]]

InitRest ==
    /\ clock = 0
    /\ usersData = [present |-> FALSE, users |-> <<>>, last_id |-> 0]
    /\ currentUser = [present |-> FALSE, id |-> <<>>, username |-> "", email |-> ""]
    /\ authResult = [op |-> "none", success |-> FALSE, message |-> ""]
    /\ logout = [at |-> -1, id |-> <<>>]
    /\ orders = <<>>
    /\ order_items = <<>>
    /\ request = [pc |-> "none", n |-> 0, items |-> <<>>, orderId |-> 0, status |-> 0,
                  before |-> [orders |-> <<>>, order_items |-> <<>>]]

(***************************************************************************)
(* Initial state: the module has been loaded, checkApiAvailability() and   *)
(* initCart() have been called and their requests are in flight.           *)
(***************************************************************************)
Init ==
    /\ apiAvailable = TRUE
    /\ probe = "pending"
    /\ remote = <<>>
    /\ local = [u \in Users |-> NoData]
    /\ calls = [s \in Slots |-> Idle]
    /\ started = 0
    /\ failedOnce = FALSE
    /\ added = [k \in Stores \X Users \X Pids |-> 0]
    /\ onlyAdds = TRUE
    /\ cleared = [u \in Users |-> "no"]
    /\ shown = [u \in Users |-> {}]
    /\ InitRest

Outcomes == {"ok", "http", "net"}

\* no call is in progress: the caller of the last one has its result
Quiet == \A s \in Slots : calls[s].pc = "idle"

\* a call starts in the lowest free slot
CanStart(s) ==
    /\ calls[s].pc = "idle"
    /\ \A t \in Slots : t < s => calls[t].pc # "idle"
    /\ started < MaxCalls

(***************************************************************************)
(* checkApiAvailability                                                    *)
(***************************************************************************)
\* any response counts as available, whatever its status
ProbeFlag_AnyResponse(outcome) == outcome # "net"

\* response.ok, or false from the catch
ProbeFlag(outcome) == outcome = "ok"

CheckApiAvailability ==
    /\ probe = "pending"
    /\ \E outcome \in Outcomes :
          /\ apiAvailable' = ProbeFlag(outcome)
          /\ failedOnce' = (failedOnce \/ outcome # "ok")
          /\ probe' = IF outcome = "ok" THEN "ok" ELSE "failed"
    /\ UNCHANGED <<remote, local, calls, started, added, onlyAdds, cleared, shown,
                   rest>>

(***************************************************************************)
(* getCart                                                                 *)
(***************************************************************************)
StartGetCart(s, userId) ==
    /\ CanStart(s)
    /\ LET c == [NewCall("getCart", GuestFallback(userId))
                    EXCEPT !.fresh = cleared[GuestFallback(userId)] # "no"]
       IN  calls' = [calls EXCEPT ![s] = BeginGetCart(c)]
    /\ started' = started + 1
    /\ UNCHANGED <<apiAvailable, probe, rest, remote, local, failedOnce, added,
                   onlyAdds, cleared, shown>>

GetCart == Quiet /\ \E s \in Slots, userId \in UserArgs : StartGetCart(s, userId)

\* the flag after the GET of getCart has come back
FlagAfterGet(outcome) == IF outcome = "http" THEN FALSE ELSE apiAvailable

\* the GET of getCart comes back: rows, a non-success status, or an exception
GetCartResponse ==
    \E s \in Slots, outcome \in Outcomes :
        LET c == calls[s]
            c2 == IF outcome = "ok"
                  THEN AfterGetCart(c, RemoteCart(c.uid), "remote")
                  ELSE AfterGetCart([c EXCEPT !.rfail = @ \/ c.op = "getCart"],
                                    getCartFromLocalStorage(c.uid), "local")
        IN  /\ c.pc = "getFetch"
            /\ apiAvailable' = FlagAfterGet(outcome)
            /\ failedOnce' = (failedOnce \/ outcome # "ok")
            /\ calls' = [calls EXCEPT ![s] = c2]
            /\ UNCHANGED <<probe, rest, remote, local, started, added, onlyAdds, cleared, shown>>

(***************************************************************************)
(* getCartItemCount and calculateCartTotal                                 *)
(***************************************************************************)
StartGetCartItemCount(s, userId) ==
    /\ CanStart(s)
    /\ LET c == [NewCall("count", GuestFallback(userId))
                    EXCEPT !.fresh = cleared[GuestFallback(userId)] # "no"]
       IN  calls' = [calls EXCEPT ![s] = [c EXCEPT !.pc = "countFetch", !.sent = TRUE]]
    /\ started' = started + 1
    /\ UNCHANGED <<apiAvailable, probe, rest, remote, local, failedOnce, added,
                   onlyAdds, cleared, shown>>

GetCartItemCount ==
    Quiet /\ \E s \in Slots, userId \in UserArgs : StartGetCartItemCount(s, userId)

\* the GET of getCartItemCount comes back; on a failure the count is taken
\* from getCart
CountResponse ==
    \E s \in Slots, outcome \in Outcomes :
        LET c == calls[s]
            c2 == IF outcome = "ok"
                  THEN AfterCount(c, SumQuantity(RemoteCart(c.uid)))
                  ELSE BeginGetCart([c EXCEPT !.stage = "countFallback",
                                              !.rfail = @ \/ c.op = "count"])
        IN  /\ c.pc = "countFetch"
            /\ failedOnce' = (failedOnce \/ outcome # "ok")
            /\ calls' = [calls EXCEPT ![s] = c2]
            /\ UNCHANGED <<apiAvailable, probe, rest, remote, local, started, added,
                           onlyAdds, cleared, shown>>

StartCalculateCartTotal(s, userId) ==
    /\ CanStart(s)
    /\ LET c == NewCall("total", GuestFallback(userId))
       IN  calls' = [calls EXCEPT ![s] = [c EXCEPT !.pc = "totalFetch", !.sent = TRUE]]
    /\ started' = started + 1
    /\ UNCHANGED <<apiAvailable, probe, rest, remote, local, failedOnce, added,
                   onlyAdds, cleared, shown>>

CalculateCartTotal ==
    Quiet /\ \E s \in Slots, userId \in UserArgs : StartCalculateCartTotal(s, userId)

TotalResponse ==
    \E s \in Slots, outcome \in Outcomes :
        LET c == calls[s]
            c2 == IF outcome = "ok"
                  THEN Finish(c, [c.res EXCEPT !.total = RemoteTotal(RowsOf(c.uid))])
                  ELSE BeginGetCart([c EXCEPT !.stage = "totalFallback", !.rfail = TRUE])
        IN  /\ c.pc = "totalFetch"
            /\ failedOnce' = (failedOnce \/ outcome # "ok")
            /\ calls' = [calls EXCEPT ![s] = c2]
            /\ UNCHANGED <<apiAvailable, probe, rest, remote, local, started, added,
                           onlyAdds, cleared, shown>>

(***************************************************************************)
(* Mutations.                                                              *)
(***************************************************************************)
\* what the caller passed fails the validation helper for it
InvalidQuantity(quantity) == ~validateQuantity(quantity).valid
InvalidUser(userId) == ~validateUserId(DefaultUser(userId)).valid

\* a call rejected by validation returns at once
Reject(s, c) ==
    /\ calls' = [calls EXCEPT ![s] = Finish(c, NoResult)]
    /\ UNCHANGED <<apiAvailable, probe, rest, remote, local, failedOnce, added, onlyAdds>>

\* a validated mutation: the request when the flag is set, else the local store
Dispatch(s, c, pc) ==
    IF apiAvailable
    THEN /\ calls' = [calls EXCEPT ![s] = [c EXCEPT !.pc = pc, !.sent = TRUE]]
         /\ UNCHANGED <<apiAvailable, probe, rest, remote, local, failedOnce, added,
                        onlyAdds>>
    ELSE /\ ServeLocal(s, c)
         /\ UNCHANGED failedOnce

StartAddToCart(s, product, quantity, userId) ==
    LET quantityResult == validateQuantity(quantity)
        userIdResult == validateUserId(DefaultUser(userId))
        c == [NewCall("add", userIdResult.userId)
                EXCEPT !.rawq = quantity,
                       !.bad = ~validateProductData(product) \/ InvalidQuantity(quantity)
                                  \/ InvalidUser(userId)]
    IN  /\ CanStart(s)
        /\ started' = started + 1
        /\ UNCHANGED shown
        /\ IF ~validateProductData(product) \/ ~quantityResult.valid \/ ~userIdResult.valid
           THEN /\ Reject(s, c)
                /\ UNCHANGED cleared
           ELSE /\ Dispatch(s, [c EXCEPT !.pid = product.id.v,
                                         !.item = NewItem(product, quantityResult.value)],
                            "addFetch")
                /\ cleared' = [cleared EXCEPT ![userIdResult.userId] = "no"]

\* the quantities addToCart is called with: 2; 0.5, 100 and not a number
AddToCart ==
    Quiet /\ \E s \in Slots, product \in ValidProducts \cup InvalidProducts,
             quantity \in { Num(20), Num(5), Num(1000), NaN },
             userId \in OwnerArgs :
        StartAddToCart(s, product, quantity, userId)

\* the POST fails before the handler has written: non-success status or exception
AddToCartFailure ==
    \E s \in Slots, outcome \in Outcomes \ {"ok"} :
        /\ calls[s].pc \in {"addFetch", "addServer"}
        /\ ServeLocal(s, [calls[s] EXCEPT !.rfail = TRUE])
        /\ failedOnce' = TRUE
        /\ UNCHANGED <<started, cleared, shown>>

\* POST /api/cart/add, first statement: the SELECT
AddHandlerSelect ==
    \E s \in Slots :
        /\ calls[s].pc = "addFetch"
        /\ calls' = [calls EXCEPT ![s] =
                [@ EXCEPT !.pc = "addServer",
                          !.seen = SelectQuantity(calls[s].uid, calls[s].pid)]]
        /\ UNCHANGED <<apiAvailable, probe, rest, remote, local, started, failedOnce,
                       added, onlyAdds, cleared, shown>>

\* POST /api/cart/add, second statement: UPDATE of the row seen, or INSERT
AddHandlerUpdate ==
    \E s \in Slots :
        LET c == calls[s]
        IN  /\ c.pc = "addServer"
            /\ c.seen > 0
            /\ ServeRemote(s, c, UpdateRows(c.uid, c.pid, c.seen + c.item.quantity))
            /\ UNCHANGED <<started, cleared, shown>>

\* the table without the key user_product: the row is always inserted
AddHandlerInsert_NoKey ==
    \E s \in Slots :
        LET c == calls[s]
        IN  /\ c.pc = "addServer"
            /\ c.seen = 0
            /\ ServeRemote(s, c, Append(remote, Row(c.uid, c.item)))
            /\ UNCHANGED <<started, cleared, shown>>

AddHandlerInsert ==
    \E s \in Slots :
        LET c == calls[s]
        IN  /\ c.pc = "addServer"
            /\ c.seen = 0
            /\ IF HasRow(c.uid, c.pid)
               THEN \* the key user_product rejects the row: status 500
                    /\ ServeLocal(s, [c EXCEPT !.rfail = TRUE, !.refused = TRUE])
                    /\ failedOnce' = TRUE
               ELSE ServeRemote(s, c, Append(remote, Row(c.uid, c.item)))
            /\ UNCHANGED <<started, cleared, shown>>

\* the user id falls back to "guest", as in getCart, instead of being rejected
StartRemoveFromCart_GuestFallback(s, productId, userId) ==
    LET c == [NewCall("remove", GuestFallback(userId))
                EXCEPT !.bad = ~validProductId(productId) \/ InvalidUser(userId)]
    IN  /\ CanStart(s)
        /\ started' = started + 1
        /\ UNCHANGED <<cleared, shown>>
        /\ IF ~validProductId(productId)
           THEN Reject(s, c)
           ELSE Dispatch(s, [c EXCEPT !.pid = productId.v], "fetch")

StartRemoveFromCart(s, productId, userId) ==
    LET userIdResult == validateUserId(DefaultUser(userId))
        c == [NewCall("remove", userIdResult.userId)
                EXCEPT !.bad = ~validProductId(productId) \/ InvalidUser(userId)]
    IN  /\ CanStart(s)
        /\ started' = started + 1
        /\ UNCHANGED <<cleared, shown>>
        /\ IF ~validProductId(productId) \/ ~userIdResult.valid
           THEN Reject(s, c)
           ELSE Dispatch(s, [c EXCEPT !.pid = productId.v], "fetch")

RemoveFromCart ==
    Quiet /\ \E s \in Slots, productId \in ProductIdArgs, userId \in OwnerArgs :
        StartRemoveFromCart(s, productId, userId)

StartUpdateCartItemQuantity(s, productId, quantity, userId) ==
    LET quantityResult == validateQuantity(quantity)
        userIdResult == validateUserId(DefaultUser(userId))
        c == [NewCall("update", userIdResult.userId)
                EXCEPT !.rawq = quantity,
                       !.bad = ~validProductId(productId) \/ InvalidQuantity(quantity)
                                  \/ InvalidUser(userId)]
    IN  /\ CanStart(s)
        /\ started' = started + 1
        /\ UNCHANGED <<cleared, shown>>
        /\ IF ~validProductId(productId) \/ ~quantityResult.valid \/ ~userIdResult.valid
           THEN Reject(s, c)
           ELSE Dispatch(s, [c EXCEPT !.pid = productId.v,
                                      !.item.quantity = quantityResult.value], "fetch")

\* the quantities: 1, 99.5; 0, 0.5, 100, -1 and a value that is not a number
UpdateCartItemQuantity ==
    Quiet /\ \E s \in Slots, productId \in ProductIdArgs,
             quantity \in { Num(10), Num(995), Num(0), Num(5), Num(1000), Num(-10), NaN },
             userId \in OwnerArgs :
        StartUpdateCartItemQuantity(s, productId, quantity, userId)

StartClearCart(s, userId) ==
    LET uid == GuestFallback(userId)
        c == [NewCall("clear", uid)
                EXCEPT !.bad = InvalidUser(userId),
                       !.again = cleared[uid] = "just"]
    IN  /\ CanStart(s)
        /\ started' = started + 1
        /\ UNCHANGED <<cleared, shown>>
        /\ Dispatch(s, c, "fetch")

ClearCart == Quiet /\ \E s \in Slots, userId \in UserArgs : StartClearCart(s, userId)

\* the PUT adds the quantity to the one the row has
HandlerRows_Relative(c) ==
    CASE c.op = "remove" -> DeleteRow(c.uid, c.pid)
      [] c.op = "update" ->
            UpdateRows(c.uid, c.pid, SelectQuantity(c.uid, c.pid) + c.item.quantity)
      [] c.op = "clear" -> DeleteRows(c.uid)

\* the table after the handler of the request of call c
HandlerRows(c) ==
    CASE c.op = "remove" -> DeleteRow(c.uid, c.pid)
      [] c.op = "update" -> UpdateRows(c.uid, c.pid, c.item.quantity)
      [] c.op = "clear" -> DeleteRows(c.uid)

\* the DELETE or PUT comes back
MutationResponse ==
    \E s \in Slots, outcome \in Outcomes :
        LET c == calls[s]
        IN  /\ c.pc = "fetch"
            /\ IF outcome = "ok"
               THEN ServeRemote(s, c, HandlerRows(c))
               ELSE /\ ServeLocal(s, [c EXCEPT !.rfail = TRUE])
                    /\ failedOnce' = TRUE
            /\ UNCHANGED <<started, cleared, shown>>

\* the handler has written, the connection breaks before the response
ResponseLost ==
    \E s \in Slots :
        LET c == calls[s]
        IN  /\ c.pc \in {"fetch", "addServer"}
            /\ c.pc = "addServer" /\ c.seen = 0 => ~HasRow(c.uid, c.pid)
            /\ ServeLost(s, [c EXCEPT !.rfail = TRUE],
                         IF c.pc = "fetch" THEN HandlerRows(c)
                         ELSE IF c.seen > 0
                         THEN UpdateRows(c.uid, c.pid, c.seen + c.item.quantity)
                         ELSE Append(remote, Row(c.uid, c.item)))
            /\ failedOnce' = TRUE
            /\ UNCHANGED <<started, cleared, shown>>

(***************************************************************************)
(* The caller takes the result.                                            *)
(***************************************************************************)
ClearedAfter(c) ==
    [u \in DOMAIN cleared |->
        IF c.op = "clear" /\ c.res.success /\ u = c.uid THEN "just"
        ELSE IF cleared[u] = "just" THEN "yes" ELSE cleared[u]]

\* the product ids of the cart a getCart has returned to the caller
ShownAfter(c) ==
    IF c.op = "getCart"
    THEN [shown EXCEPT ![c.uid] = {c.res.cart[i].id : i \in 1..Len(c.res.cart)}]
    ELSE shown

Return ==
    \E s \in Slots :
        /\ calls[s].pc = "done"
        /\ calls' = [calls EXCEPT ![s] = Idle]
        /\ cleared' = ClearedAfter(calls[s])
        /\ shown' = ShownAfter(calls[s])
        /\ UNCHANGED <<apiAvailable, probe, rest, remote, local, started, failedOnce,
                       added, onlyAdds>>

(***************************************************************************)
(* updateCartCount: exported, called by initCart, after each successful     *)
(* remote mutation, and by the listeners of the cartUpdated event and of   *)
(* the storage event another tab causes at any time.  It starts a          *)
(* getCartItemCount call nobody awaits.                                    *)
(***************************************************************************)
\* The call runs to its end: the count request, and when that fails getCart,
\* whose GET sets the flag to false on a non-success status.  The two awaits
\* are taken in one step: the call changes nothing but the flag, and it can
\* only clear it, so the step stands for the moment the GET comes back.
UpdateCartCount ==
    \E count \in Outcomes, get \in Outcomes :
        /\ apiAvailable' = IF count # "ok" /\ apiAvailable THEN FlagAfterGet(get)
                           ELSE apiAvailable
        /\ failedOnce' = (failedOnce \/ count # "ok")
        /\ UNCHANGED <<probe, rest, remote, local, calls, started, added, onlyAdds, cleared, shown>>

(***************************************************************************)
(* Specifications.                                                         *)
(***************************************************************************)
Starts ==
    \/ GetCart
    \/ AddToCart
    \/ RemoveFromCart
    \/ UpdateCartItemQuantity
    \/ ClearCart
    \/ CalculateCartTotal
    \/ GetCartItemCount

Steps ==
    \/ CheckApiAvailability
    \/ GetCartResponse
    \/ CountResponse
    \/ TotalResponse
    \/ AddToCartFailure
    \/ AddHandlerSelect
    \/ AddHandlerUpdate
    \/ AddHandlerInsert
    \/ MutationResponse
    \/ Return
    \/ UpdateCartCount

\* one caller, who awaits each result before the next call; the probe and
\* the count calls of updateCartCount run alongside
Next == Starts \/ Steps

Spec == Init /\ [][Next]_vars

(***************************************************************************)
(* Calls in flight at the same time: independent user actions (a rapid      *)
(* double click on add, a cart page that reads while an add is pending)    *)
(* start a call without awaiting the one before.                           *)
(***************************************************************************)

ConcurrentAddToCart ==
    \E s \in Slots, product \in {ProdP1} :
        StartAddToCart(s, product, Num(20), StrV(Spaced(U1)))

ConcurrentGetCart == \E s \in Slots : StartGetCart(s, StrV(Spaced(U1)))

NextRace ==
    \/ ConcurrentAddToCart
    \/ ConcurrentGetCart
    \/ CheckApiAvailability
    \/ GetCartResponse
    \/ CountResponse
    \/ AddToCartFailure
    \/ AddHandlerSelect
    \/ AddHandlerUpdate
    \/ AddHandlerInsert
    \/ Return
    \/ UpdateCartCount

SpecRace == Init /\ [][NextRace]_vars

(***************************************************************************)
(* One caller as in Spec, over a connection that can also break after the  *)
(* server has carried out a request and before its response arrives.       *)
(***************************************************************************)
NextLost == Starts \/ Steps \/ ResponseLost

SpecLost == Init /\ [][NextLost]_vars

(***************************************************************************)
(* The keys cart_<userId> are shared with the other tabs of the site and   *)
(* with whatever else runs on the origin: a value can be replaced at any   *)
(* time by one the module did not write.                                   *)
(***************************************************************************)
\* an entry of a stored array
Entry(truthy, idType, quantityType, id, quantity) ==
    [truthy |-> truthy, idType |-> idType, quantityType |-> quantityType,
     id |-> id, quantity |-> quantity, price |-> 10, original_price |-> 10,
     discount |-> 0, addedAt |-> 0, updatedAt |-> 0]

Line(id, quantity) == Entry(TRUE, "string", "number", id, quantity)

\* what can stand under a key; the arrays hold null, an entry with a
\* numeric id, quantities 0 and -1, a quantity that is a text and an entry
\* without quantity beside good lines
StoredArgs ==
    { NoData, Raw("empty"), Raw("text"), Raw("object"), Raw("null"),
      Stored(<<>>),
      Stored(<<Entry(FALSE, "undefined", "undefined", <<>>, 0),
               Line(P2, 3),
               Entry(TRUE, "number", "number", <<"7">>, 1),
               Line(P1, 0),
               Line(P1, 2)>>),
      Stored(<<Entry(TRUE, "string", "string", P1, 2),
               Entry(TRUE, "string", "undefined", P2, 0),
               Line(P1, -1)>>) }

StorageWrite ==
    /\ \E userId \in Users, value \in StoredArgs :
          local' = [local EXCEPT ![userId] = value]
    /\ UNCHANGED <<apiAvailable, probe, rest, remote, calls, started, failedOnce,
                   added, onlyAdds, cleared, shown>>

NextStored ==
    \/ StorageWrite
    \/ CheckApiAvailability
    \/ GetCart
    \/ GetCartResponse
    \/ RemoveFromCart
    \/ MutationResponse
    \/ Return

SpecStored == Init /\ [][NextStored]_vars

(***************************************************************************)
(* One caller as in Spec; the visitor who is not logged in fills the guest *)
(* cart, an account with a user id of 50 characters has a cart too, and    *)
(* the reads and clearCart are called with every kind of user id.          *)
(***************************************************************************)
GuestStarts ==
    Quiet /\ \E s \in Slots :
        \/ StartAddToCart(s, ProdP1, Num(20), Undef)
        \/ StartAddToCart(s, ProdP2, Num(20), StrV(Spaced(U50)))
        \/ \E userId \in WideUserArgs :
              \/ StartGetCart(s, userId)
              \/ StartClearCart(s, userId)
              \/ StartCalculateCartTotal(s, userId)
              \/ StartGetCartItemCount(s, userId)

NextGuest == GuestStarts \/ Steps

\* as Init, with a key and a cart for the user of 50 characters as well
InitGuest ==
    /\ apiAvailable = TRUE
    /\ probe = "pending"
    /\ remote = <<>>
    /\ local = [u \in Users \cup {U50} |-> NoData]
    /\ calls = [s \in Slots |-> Idle]
    /\ started = 0
    /\ failedOnce = FALSE
    /\ added = [k \in Stores \X (Users \cup {U50}) \X Pids |-> 0]
    /\ onlyAdds = TRUE
    /\ cleared = [u \in Users \cup {U50} |-> "no"]
    /\ shown = [u \in Users \cup {U50} |-> {}]
    /\ InitRest

SpecGuest == InitGuest /\ [][NextGuest]_vars

(***************************************************************************)
(* Calls issued in one tab without awaiting the one before, while the flag *)
(* is false.  An async function runs without interruption up to its first  *)
(* await, and with the flag false addToCart, removeFromCart and            *)
(* updateCartItemQuantity reach their return without one: the call is one  *)
(* step, and what is still open is the promise its caller has not taken.   *)
(***************************************************************************)
ConcurrentLocalStarts ==
    /\ ~apiAvailable
    /\ \E s \in Slots, productId \in {StrV(P1), StrV(P2)} :
          \/ \E product \in ValidProducts :
                StartAddToCart(s, product, Num(20), StrV(Spaced(U1)))
          \/ StartRemoveFromCart(s, productId, StrV(Spaced(U1)))
          \/ \E quantity \in {Num(10), Num(995)} :
                StartUpdateCartItemQuantity(s, productId, quantity, StrV(Spaced(U1)))

NextLocalRace ==
    \/ ConcurrentLocalStarts
    \/ CheckApiAvailability
    \/ Return
    \/ UpdateCartCount

SpecLocalRace == Init /\ [][NextLocalRace]_vars

(***************************************************************************)
(* One caller as in Spec, over a network on which every request that is in *)
(* flight comes back in the end, with a response or with an error.         *)
(***************************************************************************)
\* a request of a call in progress comes back
Responses ==
    \/ GetCartResponse
    \/ CountResponse
    \/ TotalResponse
    \/ AddToCartFailure
    \/ AddHandlerSelect
    \/ AddHandlerUpdate
    \/ AddHandlerInsert
    \/ MutationResponse

\* the seven operations, called for the user who is logged in and the
\* first product
NextLive ==
    \/ Steps
    \/ Quiet /\ \E s \in Slots :
        \/ StartGetCart(s, StrV(Spaced(U1)))
        \/ StartAddToCart(s, ProdP1, Num(20), StrV(Spaced(U1)))
        \/ StartRemoveFromCart(s, StrV(P1), StrV(Spaced(U1)))
        \/ StartUpdateCartItemQuantity(s, StrV(P1), Num(10), StrV(Spaced(U1)))
        \/ StartClearCart(s, StrV(Spaced(U1)))
        \/ StartCalculateCartTotal(s, StrV(Spaced(U1)))
        \/ StartGetCartItemCount(s, StrV(Spaced(U1)))

SpecLive == Init /\ [][NextLive]_vars /\ WF_vars(Responses)

(***************************************************************************)
(* One caller as in Spec, with time passing between the steps: new Date()  *)
(* on the client and CURRENT_TIMESTAMP on the server read the clock.       *)
(***************************************************************************)
Tick ==
    /\ clock < MaxCalls
    /\ clock' = clock + 1
    /\ UNCHANGED <<cartVars, usersData, currentUser, authResult, logout, orders,
                   order_items, request>>

\* the operations that write a line, called for the user who is logged in
NextClock ==
    \/ Tick
    \/ CheckApiAvailability
    \/ GetCartResponse
    \/ CountResponse
    \/ AddToCartFailure
    \/ AddHandlerSelect
    \/ AddHandlerUpdate
    \/ AddHandlerInsert
    \/ MutationResponse
    \/ Return
    \/ UpdateCartCount
    \/ Quiet /\ \E s \in Slots :
        \/ StartGetCart(s, StrV(Spaced(U1)))
        \/ StartAddToCart(s, ProdP1, Num(20), StrV(Spaced(U1)))
        \/ StartRemoveFromCart(s, StrV(P1), StrV(Spaced(U1)))
        \/ StartUpdateCartItemQuantity(s, StrV(P1), Num(10), StrV(Spaced(U1)))

SpecClock == Init /\ [][NextClock]_vars

(***************************************************************************)
(* Registration and login: the forms call registerUser and loginUser.      *)
(***************************************************************************)
\* the addresses the forms are filled in with
Emails == {"admin@example.com", "a@x", "b@x", "c@x"}

RegisterUser ==
    \E username \in {"admin", "ann", "bob", "cy"}, email \in Emails :
        LET r == registerUser(username, email, "pw")
        IN  /\ usersData' = r.data
            /\ authResult' = [op |-> "register", success |-> r.success,
                               message |-> r.message]
            /\ UNCHANGED <<cartVars, clock, currentUser, logout, orders, order_items,
                           request>>

\* the user who logs in waits for the cart call in progress; find gives the
\* first user with the email
LoginUser ==
    /\ Quiet /\ logout.at # started
    /\ \E email \in Emails, password \in {"admin123", "pw"} :
          LET data == getUsers
              found == {i \in 1..Len(data.users) : data.users[i].email = email}
              user == data.users[CHOOSE i \in found : \A j \in found : i <= j]
              ok == found # {} /\ user.password = password
          IN  /\ usersData' = data
              /\ currentUser' =
                    IF ok THEN [present |-> TRUE, id |-> user.id,
                                username |-> user.username, email |-> user.email]
                    ELSE currentUser
              /\ authResult' =
                    [op |-> "login", success |-> ok,
                     message |-> IF ok THEN "Login successful!"
                                 ELSE "Invalid email or password"]
              /\ UNCHANGED <<cartVars, clock, logout, orders, order_items, request>>

NextAuth == RegisterUser \/ LoginUser

SpecAuth == Init /\ [][NextAuth]_vars

(***************************************************************************)
(* Logout.  logoutUser removes the session and calls window.cart.clearCart *)
(* without an argument; it does not await the promise.  The removal and    *)
(* the start of clearCart are two steps with nothing in between.           *)
(***************************************************************************)
isLoggedIn == currentUser.present

LogoutUser ==
    /\ Quiet /\ logout.at # started /\ started < MaxCalls
    /\ currentUser' = [present |-> FALSE, id |-> <<>>, username |-> "", email |-> ""]
    /\ logout' = [at |-> started, id |-> currentUser.id]
    /\ UNCHANGED <<cartVars, clock, usersData, authResult, orders, order_items,
                   request>>

LogoutClearCart ==
    logout.at = started /\ \E s \in Slots : StartClearCart(s, Undef)

\* the pages pass the id of the user who is logged in
OwnerAddToCart ==
    /\ Quiet /\ logout.at # started /\ isLoggedIn
    /\ \E s \in Slots : StartAddToCart(s, ProdP1, Num(20), StrV(currentUser.id))

NextLogout ==
    \/ LoginUser
    \/ LogoutUser
    \/ LogoutClearCart
    \/ OwnerAddToCart
    \/ CheckApiAvailability
    \/ GetCartResponse
    \/ CountResponse
    \/ AddToCartFailure
    \/ AddHandlerSelect
    \/ AddHandlerUpdate
    \/ AddHandlerInsert
    \/ MutationResponse
    \/ Return
    \/ UpdateCartCount

\* as Init, with a key and a cart for the user with the id "1"
InitLogout ==
    /\ apiAvailable = TRUE
    /\ probe = "pending"
    /\ remote = <<>>
    /\ local = [u \in Users \cup {toString(1)} |-> NoData]
    /\ calls = [s \in Slots |-> Idle]
    /\ started = 0
    /\ failedOnce = FALSE
    /\ added = [k \in Stores \X (Users \cup {toString(1)}) \X Pids |-> 0]
    /\ onlyAdds = TRUE
    /\ cleared = [u \in Users \cup {toString(1)} |-> "no"]
    /\ shown = [u \in Users \cup {toString(1)} |-> {}]
    /\ InitRest

SpecLogout == InitLogout /\ [][NextLogout]_vars

(***************************************************************************)
(* The order server: POST /save-order.  The handler issues the INSERT into *)
(* orders, and in its callback the INSERT of all the items; request.pc is  *)
(* "order" while the first query runs, "items" while the second runs and   *)
(* "answered" when the response has been sent.                             *)
(***************************************************************************)
\* the rows of the second INSERT, one for each item of the body
itemValues(orderId, items) ==
    [i \in 1..Len(items) |->
        [order_id |-> orderId, product_id |-> items[i].product_id,
         quantity |-> items[i].quantity, unit_price |-> items[i].unit_price,
         total_price |-> items[i].quantity * items[i].unit_price]]

\* a request arrives with one item or with two
SaveOrder ==
    /\ request.pc \in {"none", "answered"}
    /\ request.n < MaxCalls
    /\ \E items \in { << [product_id |-> P1, quantity |-> 2, unit_price |-> 100] >>,
                       << [product_id |-> P1, quantity |-> 1, unit_price |-> 100],
                          [product_id |-> P2, quantity |-> 3, unit_price |-> 40] >> } :
          \* before: the two tables when the request arrived
          request' = [pc |-> "order", n |-> request.n + 1, items |-> items,
                      orderId |-> 0, status |-> 0,
                      before |-> [orders |-> orders, order_items |-> order_items]]
    /\ UNCHANGED <<cartVars, clock, usersData, currentUser, authResult, logout,
                   orders, order_items>>

\* the callback of the first query: err, or result.insertId
InsertOrder ==
    /\ request.pc = "order"
    /\ \E err \in BOOLEAN :
          IF err
          THEN /\ request' = [request EXCEPT !.pc = "answered", !.status = 500]
               /\ UNCHANGED orders
          ELSE /\ orders' = Append(orders, [id |-> Len(orders) + 1])
               /\ request' = [request EXCEPT !.pc = "items",
                                              !.orderId = Len(orders) + 1]
    /\ UNCHANGED <<cartVars, clock, usersData, currentUser, authResult, logout,
                   order_items>>

\* the callback of the second query: the error is logged, and the response
\* is the same
InsertItems ==
    /\ request.pc = "items"
    /\ \E err \in BOOLEAN :
          order_items' = IF err THEN order_items
                         ELSE order_items \o itemValues(request.orderId, request.items)
    /\ request' = [request EXCEPT !.pc = "answered", !.status = 200]
    /\ UNCHANGED <<cartVars, clock, usersData, currentUser, authResult, logout,
                   orders>>

NextOrder == SaveOrder \/ InsertOrder \/ InsertItems

SpecOrder == Init /\ [][NextOrder]_vars

(***************************************************************************)
(* Properties.                                                             *)
(***************************************************************************)
Done(s, op) == calls[s].pc = "done" /\ calls[s].op = op

\* C1 as stated: after successful addToCart calls only, under any pattern of
\* remote failures, getCart returns for each product one line whose quantity
\* is the sum of all quantities added for it.
C1_SumOfAllAdds ==
    \A s \in Slots :
        Done(s, "getCart") /\ onlyAdds =>
            \A id \in Pids :
                LET quantity == added[<<"remote", calls[s].uid, id>>]
                                    + added[<<"local", calls[s].uid, id>>]
                IN  /\ LinesOf(calls[s].res.cart, id) = IF quantity > 0 THEN 1 ELSE 0
                    /\ QuantityOf(calls[s].res.cart, id) = quantity

\* C2: once the probe or a request of a facade operation has failed, no
\* later facade operation issues a request to the API or is served by it.
C2_LocalOnlyAfterFailure ==
    \A s \in Slots :
        calls[s].late =>
            /\ ~calls[s].sent
            /\ calls[s].src # "remote"
            /\ calls[s].gsrc # "remote"

\* C3: the availability flag never goes from false back to true.
C3_FlagOneWay == [][apiAvailable = FALSE => apiAvailable' = FALSE]_vars

\* C4: when the request of getCart, addToCart, removeFromCart,
\* updateCartItemQuantity or clearCart has failed, the flag is false when
\* the operation returns.
C4_FlagFalseOnReturn ==
    [][\A s \in Slots :
          /\ calls[s].pc # "done"
          /\ calls'[s].pc = "done"
          /\ calls'[s].op \in Mutations \cup {"getCart"}
          /\ calls'[s].rfail
          => apiAvailable' = FALSE]_vars

\* a call with an invalid argument returns failure at once, has issued no
\* request, and the step that starts it leaves both stores as they are
RejectedAtOnce(s) ==
    /\ calls'[s].pc = "done"
    /\ ~calls'[s].res.success
    /\ ~calls'[s].sent
    /\ calls[s].pc = "idle" => remote' = remote /\ local' = local

\* C5 as stated: each of the four mutations, called with an invalid product,
\* quantity or user id, returns success = false without a request and
\* without a change to any cart.
C5_InvalidRejected ==
    [][\A s \in Slots :
          calls'[s].bad /\ calls'[s].op \in Mutations => RejectedAtOnce(s)]_vars

\* C5 amended: addToCart, removeFromCart and updateCartItemQuantity, called
\* with an argument that fails validation, return success = false without a
\* request and without a change to any cart; clearCart does not reject an
\* invalid user id, it is carried out for the user "guest".
C5_InvalidRejectedExceptClear ==
    [][\A s \in Slots :
          calls'[s].bad =>
              /\ calls'[s].op \in {"add", "remove", "update"} => RejectedAtOnce(s)
              /\ calls'[s].op = "clear" => calls'[s].uid = GUEST]_vars

\* a rejected mutation while both stores hold a cart
C5_Witness ==
    \E s \in Slots :
        /\ calls[s].pc = "done" /\ calls[s].bad
        /\ calls[s].op \in {"add", "remove", "update"}
        /\ remote # <<>>
        /\ getCartFromLocalStorage(U1) # <<>>

\* C6 as stated: updateCartItemQuantity with q outside [1,99] returns
\* success = false and changes neither cart.
C6_OutsideRangeRejected ==
    [][\A s \in Slots :
          /\ calls'[s].op = "update"
          /\ calls'[s].rawq.t = "num"
          /\ (calls'[s].rawq.n < MinQuantity * 10 \/ calls'[s].rawq.n > MaxQuantity * 10)
          => RejectedAtOnce(s)]_vars

\* C6 amended: updateCartItemQuantity with a q whose whole part, as
\* parseInt(q, 10) reads it, is not a number or lies outside [1,99] returns
\* success = false without a request and changes neither cart, in either
\* availability state; a fraction is cut off before the range check, so
\* 99.5 is accepted as 99.
C6_UnparsedRejected ==
    [][\A s \in Slots :
          /\ calls'[s].op = "update"
          /\ LET qty == ParseInt(calls'[s].rawq)
             IN  qty.t = "nan" \/ qty.n < MinQuantity \/ qty.n > MaxQuantity
          => RejectedAtOnce(s)]_vars

\* an update with quantity 0.5 rejected while the flag is false and the
\* local cart of the user has a line
C6_Witness ==
    \E s \in Slots :
        /\ Done(s, "update")
        /\ calls[s].rawq = Num(5)
        /\ ~calls[s].res.success
        /\ ~apiAvailable
        /\ getCartFromLocalStorage(U1) # <<>>

\* C7: removeFromCart of a product id that the cart has returns success with
\* the cart without that line, the other lines as they were, and itemCount
\* the sum of the quantities left.  The cart is the one of the store that
\* serves the removal.
C7_RemovePresent ==
    \A s \in Slots :
        Done(s, "remove") /\ ~calls[s].bad /\ HasId(calls[s].before, calls[s].pid) =>
            /\ calls[s].res.success
            /\ calls[s].res.cart
                  = splice(calls[s].before, findIndex(calls[s].before, calls[s].pid))
            /\ calls[s].res.itemCount = SumQuantity(calls[s].res.cart)

\* C8: removeFromCart or updateCartItemQuantity of a product id that the cart
\* does not have returns a failure flagged product-not-found and changes no
\* store, on the remote path and on the local path.
C8_AbsentNotFound ==
    \A s \in Slots :
        /\ calls[s].pc = "done"
        /\ calls[s].op \in {"remove", "update"}
        /\ ~calls[s].bad
        /\ ~HasId(calls[s].before, calls[s].pid)
        => /\ ~calls[s].res.success
           /\ calls[s].res.notFound
           /\ ~calls[s].changed

\* C9: after a successful clearCart of a user and no addToCart for that user
\* since, getCart returns an empty cart and getCartItemCount returns 0.
C9_EmptyAfterClear ==
    \A s \in Slots :
        /\ Done(s, "getCart") /\ calls[s].fresh => calls[s].res.cart = <<>>
        /\ Done(s, "count") /\ calls[s].fresh => calls[s].res.itemCount = 0

\* C10: a clearCart called right after a successful clearCart of the same
\* user returns the same result and leaves both stores as the first left them.
C10_ClearIdempotent ==
    [][\A s \in Slots :
          calls'[s].op = "clear" /\ calls'[s].again =>
              /\ remote' = remote
              /\ local' = local
              /\ calls'[s].pc = "done" => calls'[s].res = Result(TRUE, FALSE, <<>>, 0)]_vars

\* C11: every mutation that returns success has dispatched a cartUpdated
\* event carrying the user id and the item count.
C11_SuccessNotifies ==
    \A s \in Slots :
        /\ calls[s].pc = "done"
        /\ calls[s].op \in Mutations
        /\ calls[s].res.success
        => /\ calls[s].event.fired
           /\ calls[s].event.userId = calls[s].uid
           /\ calls[s].event.itemCount.t = "num"

\* C12: once the request of addToCart, removeFromCart or
\* updateCartItemQuantity has succeeded, the steps of that call leave the
\* flag as it is, and the call returns the cart and the count the server has
\* for the user.
C12_ServerStateReturned ==
    [][\A s \in Slots :
          /\ calls[s].op \in {"add", "remove", "update"}
          /\ calls[s].src = "remote"
          /\ calls'[s] # calls[s]
          /\ calls'[s].pc # "idle"
          => /\ apiAvailable' = apiAvailable
             /\ calls'[s].pc = "done" =>
                   /\ calls'[s].res.cart = RemoteCart(calls[s].uid)
                   /\ calls'[s].res.itemCount = SumQuantity(RemoteCart(calls[s].uid))]_vars

\* C13: when the request of a mutation has failed and the local store can
\* be written, a call with valid input
\* that is an add, a clear, or a remove or update of a line of the cart the
\* last getCart returned for the user returns success.
C13_RemoteFailureInvisible ==
    \A s \in Slots :
        /\ calls[s].pc = "done"
        /\ calls[s].op \in Mutations
        /\ ~calls[s].bad
        /\ calls[s].rfail
        /\ ~calls[s].lfail
        /\ calls[s].op \in {"remove", "update"} => calls[s].pid \in shown[calls[s].uid]
        => calls[s].res.success

\* C14: each store holds at most one line per user and product id, also
\* after addToCart calls in flight at the same time for a product that is
\* not yet in the cart.
C14_OneLinePerProduct ==
    \A u \in Users, id \in Pids :
        /\ LinesOf(RemoteCart(u), id) <= 1
        /\ LinesOf(local[u].items, id) <= 1

\* two adds of one product raced on the server and both have been served
C14_Witness ==
    /\ \A s \in Slots : calls[s].op = "add" /\ calls[s].src # "none" /\ calls[s].seen = 0
    /\ calls[1].uid = calls[2].uid
    /\ calls[1].pid = calls[2].pid
    /\ \E s \in Slots : calls[s].src = "remote"
    /\ HasRow(calls[1].uid, calls[1].pid)

\* C15: every cart line in the remote store and in the local store has a
\* quantity in [1,99].
C15_QuantityInRange ==
    /\ \A i \in 1..Len(remote) :
          remote[i].quantity \in MinQuantity..MaxQuantity
    /\ \A u \in Users : \A i \in 1..Len(local[u].items) :
          local[u].items[i].quantity \in MinQuantity..MaxQuantity

\* the handler of the add call in slot s has carried out or tried its write
Upserted(s) ==
    calls[s].op = "add" /\ (calls[s].src = "remote" \/ calls[s].refused)

\* C16: two addToCart calls for one product and user in flight together are
\* handled as two upserts one after the other: no INSERT is refused, and the
\* line holds the quantity before plus both quantities added.
C16_SequentialUpserts ==
    /\ Upserted(1) /\ Upserted(2)
    /\ calls[1].uid = calls[2].uid
    /\ calls[1].pid = calls[2].pid
    => /\ ~calls[1].refused /\ ~calls[2].refused
       /\ SelectQuantity(calls[1].uid, calls[1].pid)
             = (IF calls[1].seen < calls[2].seen THEN calls[1].seen ELSE calls[2].seen)
                  + calls[1].item.quantity + calls[2].item.quantity

\* the effective price is price x (1 - discount/100) when
\* 0 < discount <= 100, else price; in hundredths
RECURSIVE EffectiveTotal(_, _)
EffectiveTotal(cart, n) ==
    IF n = 0 THEN 0
    ELSE (IF 0 < cart[n].discount /\ cart[n].discount <= 100
          THEN cart[n].price * (100 - cart[n].discount)
          ELSE cart[n].price * 100) * cart[n].quantity + EffectiveTotal(cart, n - 1)

\* C17: a calculateCartTotal that falls back to the computation on the
\* client returns the sum over the lines of the cart of effective unit
\* price x quantity.
C17_DiscountedTotal ==
    \A s \in Slots :
        Done(s, "total") /\ calls[s].rfail =>
            calls[s].res.total
                = EffectiveTotal(calls[s].res.cart, Len(calls[s].res.cart))

\* the fallback on the cart with the one line price 100, discount 25,
\* quantity 2 gives 150
C17_Witness ==
    \E s \in Slots :
        /\ Done(s, "total") /\ calls[s].rfail
        /\ Len(calls[s].res.cart) = 1
        /\ calls[s].res.cart[1].price = 100
        /\ calls[s].res.cart[1].discount = 25
        /\ calls[s].res.cart[1].quantity = 2
        /\ calls[s].res.total = 150 * 100

C19_OneStorePerCall ==
    \A s \in Slots : Cardinality(calls[s].wrote) <= 1

\* the {id, quantity} pairs of a cart
PairsOf(cart) == {<<cart[i].id, cart[i].quantity>> : i \in 1..Len(cart)}

\* C20: the cart a mutation on the local path has written is read back by
\* getCartFromLocalStorage with the same set of {id, quantity} pairs.
C20_LocalRoundTrip ==
    \A s \in Slots :
        /\ calls[s].pc = "done"
        /\ calls[s].op \in {"add", "remove", "update"}
        /\ calls[s].src = "local"
        /\ calls[s].res.success
        => PairsOf(getCartFromLocalStorage(calls[s].uid)) = PairsOf(calls[s].res.cart)

\* an update on the local path has written a cart of two lines, one of
\* them with quantity 1
C20_Witness ==
    \E s \in Slots :
        /\ Done(s, "update")
        /\ calls[s].src = "local"
        /\ calls[s].res.success
        /\ Len(calls[s].res.cart) = 2
        /\ \E i \in 1..2 : calls[s].res.cart[i].quantity = 1
        /\ local[calls[s].uid].items = calls[s].res.cart

\* C21: getCartFromLocalStorage gives an empty cart when the stored value
\* is missing, is no JSON or is no array, and otherwise the stored entries
\* with a string id and a numeric quantity above 0, all of them, in stored
\* order.
C21_ReadStored ==
    \A u \in Users :
        LET v == local[u]
            r == getCartFromLocalStorage(u)
            \* the positions of the entries with a string id and a numeric
            \* quantity above 0, and the position of the k-th of them
            Kept == {i \in 1..Len(v.items) :
                        /\ v.items[i].idType = "string"
                        /\ v.items[i].quantityType = "number"
                        /\ v.items[i].quantity > 0}
            KeptAt(k) == CHOOSE i \in Kept : Cardinality({j \in Kept : j <= i}) = k
        IN  /\ v.form # "array" => r = <<>>
            /\ v.form = "array" =>
                  /\ Len(r) = Cardinality(Kept)
                  /\ \A k \in 1..Len(r) : r[k] = v.items[KeptAt(k)]

\* a getCart served by the local store has returned the two good entries of
\* a stored array of five, and the key of the other user holds no JSON
C21_Witness ==
    \E s \in Slots :
        /\ Done(s, "getCart") /\ calls[s].gsrc = "local"
        /\ Len(local[calls[s].uid].items) = 5
        /\ calls[s].res.cart = <<Line(P2, 3), Line(P1, 2)>>
        /\ calls[s].res.cart = getCartFromLocalStorage(calls[s].uid)
        /\ \E u \in Users : local[u].form = "text"

\* C22: the probe issued when the module is loaded is the only one; when it
\* completes, the flag is true if the response was successful and false if
\* the request threw or came back with a non-success status.
C22_ProbeOnce ==
    [][/\ probe = "pending" /\ probe' # "pending" =>
              apiAvailable' = (probe' = "ok")
       /\ probe # "pending" => probe' = probe]_vars

\* the probe has failed and the flag is false while no call of the caller
\* has started
C22_Witness == probe = "failed" /\ ~apiAvailable /\ started = 0

\* C23: the write of the add handler is an upsert keyed by (userId,
\* productId): it creates the line with the given quantity when there is
\* none, else it adds the given quantity to the quantity the line has, and
\* it leaves the lines of other products and users as they are.
C23_AddIsUpsert ==
    [][\A s \in Slots :
          LET c == calls[s]
          IN  /\ c.pc = "addServer"
              /\ calls'[s].src = "remote" \/ calls'[s].refused
              => remote' =
                    IF HasRow(c.uid, c.pid)
                    THEN UpdateRows(c.uid, c.pid,
                                    SelectQuantity(c.uid, c.pid) + c.item.quantity)
                    ELSE Append(remote, Row(c.uid, c.item))]_vars

StartsWith(s, userId) ==
    /\ calls[s].pc = "idle" /\ calls'[s].pc # "idle"
    /\ \/ StartGetCart(s, userId)
       \/ StartClearCart(s, userId)
       \/ StartCalculateCartTotal(s, userId)
       \/ StartGetCartItemCount(s, userId)

\* the user id is not a string, is empty after trimming, or has a length
\* above 50; length is the one of the id as passed or of the trimmed id
NoUserId(userId, length) ==
    \/ userId.t # "str"
    \/ Trim(userId.v) = <<>>
    \/ length > MaxUserIdLen

\* C25 as stated: getCart, clearCart, calculateCartTotal and
\* getCartItemCount called with a user id that is absent, not a string,
\* empty after trimming or longer than 50 characters operate on the cart of
\* the user "guest".
C25_GuestWhenInvalid ==
    [][\A s \in Slots, userId \in WideUserArgs :
          StartsWith(s, userId) /\ NoUserId(userId, Len(userId.v)) =>
              calls'[s].uid = GUEST]_vars

\* C25 amended: getCart, clearCart, calculateCartTotal and getCartItemCount
\* called with a user id that is absent, not a string, empty after trimming
\* or longer than 50 characters after trimming operate on the cart of the
\* user "guest": the call carries the id "guest", and a clearCart for
\* "guest" that returns success leaves the guest cart of the store that
\* served it empty and the carts of the other users as they were.  A padded
\* id of up to 50 characters between the blanks is trimmed and used.
C25_GuestWhenInvalidTrimmed ==
    [][\A s \in Slots :
          /\ \A userId \in WideUserArgs :
                StartsWith(s, userId) =>
                    calls'[s].uid = IF NoUserId(userId, Len(Trim(userId.v)))
                                    THEN GUEST ELSE Trim(userId.v)
          /\ (/\ calls[s].op = "clear" /\ calls[s].uid = GUEST
              /\ calls[s].pc # "done" /\ calls'[s].pc = "done"
              /\ calls'[s].res.success)
             => /\ calls'[s].src = "remote" =>
                      /\ RemoteCart(GUEST)' = <<>>
                      /\ \A u \in DOMAIN local \ {GUEST} :
                            RemoteCart(u)' = RemoteCart(u)
                /\ calls'[s].src = "local" =>
                      /\ getCartFromLocalStorage(GUEST)' = <<>>
                      /\ \A u \in DOMAIN local \ {GUEST} : local'[u] = local[u]]_vars

\* a clearCart called with an invalid user id has emptied the guest cart,
\* which had a line, while the user of 50 characters keeps a cart
C25_Witness ==
    \E s \in Slots :
        /\ Done(s, "clear") /\ calls[s].bad
        /\ calls[s].uid = GUEST
        /\ calls[s].before # <<>>
        /\ calls[s].changed
        /\ RemoteCart(U50) # <<>> \/ getCartFromLocalStorage(U50) # <<>>

\* C26: with the flag false, addToCart, removeFromCart and
\* updateCartItemQuantity calls issued without awaiting one another act on
\* the local store one after another.  While only adds have succeeded, the
\* line of each product holds the sum of the quantities the adds served
\* there have added; and every call started with the flag false is one
\* whole step: it returns in the step, the cart it read is the one stored
\* before the step, and the cart it returns is the one stored after it.
C26_LocalCallsSerial ==
    /\ [](onlyAdds =>
            \A u \in Users, id \in Pids :
                QuantityOf(getCartFromLocalStorage(u), id) = added[<<"local", u, id>>])
    /\ [][\A s \in Slots :
             /\ ~apiAvailable
             /\ calls[s].pc = "idle"
             /\ calls'[s].op \in {"add", "remove", "update"}
             => /\ calls'[s].pc = "done"
                /\ ~calls'[s].rfail
                /\ calls'[s].src = "local" =>
                      /\ calls'[s].before = getCartFromLocalStorage(calls'[s].uid)
                      /\ calls'[s].res.success =>
                            \A u \in Users :
                                u = calls'[s].uid =>
                                    getCartFromLocalStorage(u)' = calls'[s].res.cart]_vars

\* two adds of 2 of one product, neither result taken yet, both served by
\* the local store without a request of their own: the line holds 4
C26_Witness ==
    /\ \A s \in Slots :
          /\ Done(s, "add") /\ calls[s].src = "local" /\ ~calls[s].rfail
          /\ calls[s].res.success
          /\ calls[s].item.quantity = 2
    /\ calls[1].uid = calls[2].uid /\ calls[1].pid = calls[2].pid
    /\ ~apiAvailable
    /\ onlyAdds
    /\ QuantityOf(getCartFromLocalStorage(calls[1].uid), calls[1].pid) = 4

\* C27: when every request comes back, every call that waits for one
\* returns a result in the end; a failed request is followed by the
\* local-store fallback, not by another try.
C27_AlwaysReturns ==
    \A s \in Slots : calls[s].pc \notin {"idle", "done"} ~> calls[s].pc = "done"

\* a mutation whose request failed has returned the result of the local
\* store
C27_Witness ==
    \E s \in Slots :
        /\ calls[s].pc = "done" /\ calls[s].op \in Mutations
        /\ calls[s].rfail
        /\ calls[s].src = "local"
        /\ calls[s].res.success

\* C28: a calculateCartTotal answered by the total endpoint returns the
\* total the computation on the client gives for the same cart, lines with
\* a discount included.
C28_SameTotalBothPaths ==
    \A s \in Slots :
        Done(s, "total") /\ ~calls[s].rfail =>
            calls[s].res.total = CartTotal(RemoteCart(calls[s].uid))

\* C29: the itemCount of every cartUpdated event is a number, the sum of
\* the quantities of the lines of the user's cart after the mutation that
\* dispatched it.
C29_EventCountIsSum ==
    \A s \in Slots :
        calls[s].event.fired =>
            calls[s].event.itemCount = Num(SumQuantity(calls[s].res.cart))

\* C30: in the result of every mutation that returns success, itemCount is
\* the sum of the quantities of the lines of the cart returned with it.
C30_CountMatchesCart ==
    \A s \in Slots :
        /\ calls[s].pc = "done"
        /\ calls[s].op \in Mutations
        /\ calls[s].res.success
        => calls[s].res.itemCount = SumQuantity(calls[s].res.cart)

(***************************************************************************)
(* C31: every mutation of a cart line sets its updatedAt to the time of    *)
(* that mutation, and addedAt is set once at creation and never changes:   *)
(* when an addToCart or updateCartItemQuantity is carried out by a store,  *)
(* on the remote path or on the local path, the line of the product in     *)
(* that store has the present time as updatedAt, and as addedAt the one it *)
(* had before, or the present time when the line is new.                   *)
(***************************************************************************)
C31_MutationStampsLine ==
    [][\A s \in Slots, u \in Users, src \in Stores :
          LET before == IF src = "remote" THEN RemoteCart(u)
                        ELSE getCartFromLocalStorage(u)
              i == findIndex(before, calls'[s].pid)
          IN  /\ calls[s].src = "none"
              /\ calls'[s].op \in {"add", "update"}
              /\ calls'[s].uid = u
              /\ calls'[s].src = src
              /\ src = "local" => calls'[s].res.success
              => LET after == IF src = "remote" THEN RemoteCart(u)'
                              ELSE getCartFromLocalStorage(u)'
                     j == findIndex(after, calls'[s].pid)
                 IN  j # 0 =>
                       /\ after[j].updatedAt = clock
                       /\ after[j].addedAt =
                             IF i # 0 THEN before[i].addedAt ELSE clock]_vars

C33_LogoutClearsCart ==
    \A s \in Slots :
        /\ Done(s, "clear")
        /\ started = logout.at + 1
        /\ logout.id # <<>>
        => /\ ~isLoggedIn
           /\ calls[s].src = "remote" => RemoteCart(logout.id) = <<>>
           /\ calls[s].src = "local" => getCartFromLocalStorage(logout.id) = <<>>

(***************************************************************************)
(* C34: after any sequence of registerUser calls, no two stored users      *)
(* share an email, a username or an id, and a registerUser call rejected   *)
(* for a duplicate email or username does not add a user or change         *)
(* last_id.                                                                *)
(***************************************************************************)
C34_UsersUnique ==
    /\ [](\A i, j \in 1..Len(getUsers.users) :
             i # j => /\ getUsers.users[i].email # getUsers.users[j].email
                      /\ getUsers.users[i].username # getUsers.users[j].username
                      /\ getUsers.users[i].id # getUsers.users[j].id)
    /\ [][authResult'.op = "register" /\ ~authResult'.success =>
             /\ getUsers'.users = getUsers.users
             /\ getUsers'.last_id = getUsers.last_id]_vars

\* two users have registered beside the default one, and the last call
\* was rejected for its username
C34_Witness ==
    /\ Len(getUsers.users) = 3
    /\ getUsers.last_id = 3
    /\ authResult.op = "register" /\ ~authResult.success
    /\ authResult.message = "Username already taken"

(***************************************************************************)
(* C35: a /save-order request answered with status 200 has stored the      *)
(* order row and every one of its order-item rows; a request answered with *)
(* an error status has stored neither.                                     *)
(***************************************************************************)
C35_SavedWhenAnswered ==
    request.pc = "answered" =>
        IF request.status = 200
        THEN /\ orders = Append(request.before.orders, [id |-> request.orderId])
             /\ order_items = request.before.order_items
                                 \o itemValues(request.orderId, request.items)
        ELSE /\ orders = request.before.orders
             /\ order_items = request.before.order_items

====
